---- MODULE Spec2Model ----
(***************************************************************************)
(* A model of airflow/providers/salesforce/hooks/salesforce.py:            *)
(* SalesforceHook, its cached connection, the record-to-table              *)
(* normalisation (object_to_df, _to_timestamp) and the file writer         *)
(* (write_object_to_file).                                                 *)
(*                                                                         *)
(* Text is a sequence of one-character strings, so that str.lower and      *)
(* str.replace are computed character by character.  A cell value is a     *)
(* record [k, s, n]: k is the Python kind ("str", "num", "bool", "None",   *)
(* "nan", "dict"), s the text of a str (the `type` of an attributes        *)
(* dict), n the number of a num (1/0 for a bool, for a dict whether it     *)
(* has a `type` entry).                                                    *)
(***************************************************************************)
EXTENDS Integers, Sequences, FiniteSets, TLC

VARIABLES
    query_results,       \* argument: the list of records (dicts) of the caller
    fmt,                 \* argument of write_object_to_file
    coerce_to_timestamp, \* argument
    record_time_added,   \* argument
    conn,                \* self.conn: 0 is None, k > 0 the k-th session created
    signIns,             \* number of Salesforce(...) sign-ins that succeeded
    op,                  \* the method that ran last ("init": none yet)
    ret,                 \* outcome of the last method (status, error, tables)
    describeCalls,       \* object names given to conn.<obj>.describe() by it
    writes,              \* writes to the output file made by it
    logs,                \* log.error diagnostics (column names) made by it
    signIn               \* what get_conn did in the last method: "none" (not
                         \* called), "cached", "ok" (signed in) or "failed"

vars == <<query_results, fmt, coerce_to_timestamp, record_time_added, conn,
          signIns, op, ret, describeCalls, writes, logs, signIn>>

\* ------------------------------------------------------------------ bounds

MaxRecords == 2
MaxSessions == 2

\* -------------------------------------------------------------------- text

CR == "\r"
LF == "\n"

UpperToLower ==
    [A |-> "a", B |-> "b", C |-> "c", D |-> "d", E |-> "e", F |-> "f",
     G |-> "g", H |-> "h", I |-> "i", J |-> "j", K |-> "k", L |-> "l",
     M |-> "m", N |-> "n", O |-> "o", P |-> "p", Q |-> "q", R |-> "r",
     S |-> "s", T |-> "t", U |-> "u", V |-> "v", W |-> "w", X |-> "x",
     Y |-> "y", Z |-> "z"]

\* str.lower(), one character
LowerChar(c) == IF c \in DOMAIN UpperToLower THEN UpperToLower[c] ELSE c

\* str.lower()
Lower(s) == [i \in 1..Len(s) |-> LowerChar(s[i])]

\* str.replace(pat, ""): the occurrences of pat, found left to right and not
\* overlapping, are deleted
RECURSIVE ReplaceFrom(_, _, _)
ReplaceFrom(s, pat, i) ==
    IF i > Len(s) THEN <<>>
    ELSE IF i + Len(pat) - 1 <= Len(s) /\ SubSeq(s, i, i + Len(pat) - 1) = pat
         THEN ReplaceFrom(s, pat, i + Len(pat))
         ELSE <<s[i]>> \o ReplaceFrom(s, pat, i + 1)

Replace(s, pat) == ReplaceFrom(s, pat, 1)

\* elements of a sequence, as a set
Range(s) == {s[i] : i \in 1..Len(s)}

\* str(n) of a non-negative int
DigitChars == <<"0", "1", "2", "3", "4", "5", "6", "7", "8", "9">>

RECURSIVE IntStr(_)
IntStr(n) == IF n < 10 THEN <<DigitChars[n + 1]>>
             ELSE IntStr(n \div 10) \o <<DigitChars[(n % 10) + 1]>>

\* ------------------------------------------------------------------ values

Str(s) == [k |-> "str",  s |-> s,    n |-> 0]
Num(n) == [k |-> "num",  s |-> <<>>, n |-> n]
Bool(b) == [k |-> "bool", s |-> <<>>, n |-> IF b THEN 1 ELSE 0]
None == [k |-> "None", s |-> <<>>, n |-> 0]
NaN == [k |-> "nan",  s |-> <<>>, n |-> 0]
\* the attributes dict of a record, with and without its `type` entry
Attrs(t) == [k |-> "dict", s |-> t,    n |-> 1]
NoType == [k |-> "dict", s |-> <<>>, n |-> 0]

IsStr(v) == v.k = "str"

\* --------------------------------------------------- pandas.to_datetime

IsDigit(c) == c \in Range(DigitChars)

DigitVal(c) == CHOOSE d \in 0..9 : DigitChars[d + 1] = c

RECURSIVE NumOf(_)
NumOf(s) == IF s = <<>> THEN 0
            ELSE 10 * NumOf(SubSeq(s, 1, Len(s) - 1)) + DigitVal(s[Len(s)])

IsLeap(y) == (y % 4 = 0 /\ y % 100 # 0) \/ y % 400 = 0

DaysInMonth(y, m) ==
    IF m = 2 THEN (IF IsLeap(y) THEN 29 ELSE 28)
    ELSE IF m \in {4, 6, 9, 11} THEN 30 ELSE 31

\* days from 1970-01-01 to y-m-d of the proleptic Gregorian calendar
DaysFromCivil(y, m, d) ==
    LET yy  == IF m <= 2 THEN y - 1 ELSE y
        era == yy \div 400
        yoe == yy - era * 400
        mp  == IF m > 2 THEN m - 3 ELSE m + 9
        doy == (153 * mp + 2) \div 5 + d - 1
        doe == yoe * 365 + yoe \div 4 - yoe \div 100 + doy
    IN  era * 146097 + doe - 719468

\* an ISO date YYYY-MM-DD that names a day a pandas Timestamp can hold
IsDay(y, m, d) == y \in 1678..2261 /\ m \in 1..12 /\ d \in 1..DaysInMonth(y, m)

IsISODate(s) ==
    /\ Len(s) = 10
    /\ s[5] = "-" /\ s[8] = "-"
    /\ \A i \in {1, 2, 3, 4, 6, 7, 9, 10} : IsDigit(s[i])
    /\ IsDay(NumOf(SubSeq(s, 1, 4)), NumOf(SubSeq(s, 6, 7)), NumOf(SubSeq(s, 9, 10)))

\* Timestamp.timestamp() of the parsed date: seconds since the epoch, UTC midnight
EpochSeconds(s) ==
    DaysFromCivil(NumOf(SubSeq(s, 1, 4)), NumOf(SubSeq(s, 6, 7)),
                  NumOf(SubSeq(s, 9, 10))) * 86400

\* What pandas.to_datetime makes of one value of the column: a Timestamp
\* ("ts"), NaT ("nat": None, NaN and the empty string), or the exception it
\* raises: ValueError (ParserError, OutOfBoundsDatetime) for a string that is
\* no date, TypeError for a value of a type it does not convert (bool, dict).
ToDatetime1(v) ==
    CASE v.k \in {"None", "nan"} -> [r |-> "nat", secs |-> 0]
      [] v.k = "str" ->
             IF v.s = <<>> THEN [r |-> "nat", secs |-> 0]
             ELSE IF IsISODate(v.s) THEN [r |-> "ts", secs |-> EpochSeconds(v.s)]
             ELSE [r |-> "ValueError", secs |-> 0]
      [] v.k \in {"bool", "dict"} -> [r |-> "TypeError", secs |-> 0]

\* errors="raise": the first value that does not convert raises
FirstError(conv, bad) ==
    IF bad = {} THEN [status |-> "ok", values |-> conv]
    ELSE [status |-> conv[CHOOSE i \in bad : \A j \in bad : i <= j].r,
          values |-> <<>>]

Converted(conv) ==
    FirstError(conv, {i \in 1..Len(conv) : conv[i].r \in {"ValueError", "TypeError"}})

\* pd.to_datetime(column)
pd_to_datetime(column) ==
    Converted([i \in 1..Len(column) |-> ToDatetime1(column[i])])

\* value.timestamp() inside try/except (ValueError, AttributeError): NaT
\* raises ValueError and becomes NaN
TimestampOrNaN(t) == IF t.r = "ts" THEN Num(t.secs) ELSE NaN

\* the rest of _to_timestamp, given what pd.to_datetime(column) did: a
\* ValueError is caught, logged and the column returned as it was; any other
\* exception is not caught
Timestamps(column, parsed) ==
    CASE parsed.status = "ValueError" ->
             [status |-> "ok", error |-> "", values |-> column, logged |-> TRUE]
      [] parsed.status = "TypeError" ->
             [status |-> "raise", error |-> "TypeError", values |-> column,
              logged |-> FALSE]
      [] parsed.status = "ok" ->
             [status |-> "ok", error |-> "",
              values |-> [i \in 1..Len(column) |-> TimestampOrNaN(parsed.values[i])],
              logged |-> FALSE]

\* SalesforceHook._to_timestamp(column)
to_timestamp(column) == Timestamps(column, pd_to_datetime(column))

\* ------------------------------------------------------------ the table

\* A DataFrame, column by column: columns[j] names data[j], a sequence of
\* nrows values.
EmptyDf == [columns |-> <<>>, data |-> <<>>, nrows |-> 0]

\* A record of query_results is a Python dict: a sequence of <<key, value>>
\* pairs in insertion order, no key twice.
HasKey(rec, key) == \E i \in 1..Len(rec) : rec[i][1] = key

Get(rec, key) == rec[CHOOSE i \in 1..Len(rec) : rec[i][1] = key][2]

RECURSIVE AllKeys(_)
AllKeys(data) ==
    IF data = <<>> THEN <<>>
    ELSE [i \in 1..Len(data[1]) |-> data[1][i][1]] \o AllKeys(Tail(data))

\* the elements of a sequence in the order they are first seen
RECURSIVE Unique(_)
Unique(s) ==
    IF s = <<>> THEN <<>>
    ELSE LET r == Unique(SubSeq(s, 1, Len(s) - 1))
         IN  IF s[Len(s)] \in Range(r) THEN r ELSE Append(r, s[Len(s)])

\* The table of the records under the given columns: NaN where a record
\* lacks the key.  The index is taken from the columns, so a table without
\* columns has no rows.
Frame(data, columns, nrows) ==
    [columns |-> columns,
     data    |-> [j \in 1..Len(columns) |->
                    [i \in 1..nrows |->
                        IF HasKey(data[i], columns[j])
                        THEN Get(data[i], columns[j]) ELSE NaN]],
     nrows   |-> nrows]

FrameOf(data, columns) ==
    Frame(data, columns, IF columns = <<>> THEN 0 ELSE Len(data))
\* from_records that forgets its exclude argument
from_records_keep_all(data, exclude) == FrameOf(data, Unique(AllKeys(data)))

\* pd.DataFrame.from_records(data, exclude=exclude) of a list of dicts: a
\* column per key seen, in first-seen order, less the excluded names
from_records(data, exclude) ==
    FrameOf(data, SelectSeq(Unique(AllKeys(data)), LAMBDA c : c \notin exclude))

\* df.columns = [column.lower() for column in df.columns]
LowerColumns(df) ==
    [df EXCEPT !.columns = [j \in 1..Len(df.columns) |-> Lower(df.columns[j])]]

\* df[name] = value: every row of the column called name is set to value;
\* a name that is no column yet is appended as a new last column
SetColumn(df, name, value) ==
    IF name \in Range(df.columns)
    THEN [df EXCEPT !.data = [j \in 1..Len(df.columns) |->
                                IF df.columns[j] = name
                                THEN [i \in 1..df.nrows |-> value]
                                ELSE df.data[j]]]
    ELSE [df EXCEPT !.columns = Append(df.columns, name),
                    !.data    = Append(df.data, [i \in 1..df.nrows |-> value])]

\* the dtype pandas infers for a column
Dtype(col) ==
    IF col # <<>> /\ \A i \in 1..Len(col) : col[i].k \in {"num", "nan"}
    THEN "float64"
    ELSE IF col # <<>> /\ \A i \in 1..Len(col) : col[i].k = "bool"
    THEN "bool"
    ELSE "object"

\* str(value), as astype(str) applies it
StrOf(v) ==
    CASE v.k = "str"  -> v.s
      [] v.k = "None" -> <<"N", "o", "n", "e">>
      [] v.k = "nan"  -> <<"n", "a", "n">>
      [] v.k = "bool" -> IF v.n = 1 THEN <<"T", "r", "u", "e">>
                         ELSE <<"F", "a", "l", "s", "e">>
      [] v.k = "num"  -> IntStr(v.n)

\* ------------------------------------------------------------- the hook

\* field and column names
K_attributes == <<"a", "t", "t", "r", "i", "b", "u", "t", "e", "s">>
K_Attributes == <<"A", "t", "t", "r", "i", "b", "u", "t", "e", "s">>
K_Id == <<"I", "d">>
K_CloseDate == <<"C", "l", "o", "s", "e", "D", "a", "t", "e">>
K_CreatedDate == <<"C", "r", "e", "a", "t", "e", "d", "D", "a", "t", "e">>
K_Amount == <<"A", "m", "o", "u", "n", "t">>
K_Time_Fetched ==
    <<"T", "i", "m", "e", "_", "F", "e", "t", "c", "h", "e", "d", "_",
      "F", "r", "o", "m", "_", "S", "a", "l", "e", "s", "f", "o", "r", "c", "e">>
time_fetched_from_salesforce ==
    <<"t", "i", "m", "e", "_", "f", "e", "t", "c", "h", "e", "d", "_",
      "f", "r", "o", "m", "_", "s", "a", "l", "e", "s", "f", "o", "r", "c", "e">>
\* a get_conn that signs in on every call
get_conn_always(h, loginOk) ==
    IF loginOk
    THEN [conn |-> h.signIns + 1, signIns |-> h.signIns + 1,
          raised |-> FALSE, signIn |-> "ok"]
    ELSE [conn |-> 0, signIns |-> h.signIns, raised |-> TRUE,
          signIn |-> "failed"]

\* The hook's connection state is h = [conn, signIns].
\* get_conn: signs in only when self.conn is unset; a sign-in that raises
\* (get_connection, the extras lookup or Salesforce(...)) assigns nothing.
get_conn(h, loginOk) ==
    IF h.conn = 0
    THEN IF loginOk
         THEN [conn |-> h.signIns + 1, signIns |-> h.signIns + 1,
               raised |-> FALSE, signIn |-> "ok"]
         ELSE [conn |-> 0, signIns |-> h.signIns, raised |-> TRUE,
               signIn |-> "failed"]
    ELSE [conn |-> h.conn, signIns |-> h.signIns, raised |-> FALSE,
          signIn |-> "cached"]

\* conn.<obj>.describe() on the connection c that get_conn() gave: the
\* schema, or it raises (describe.ok is FALSE)
Describe(c, describe) ==
    [conn     |-> c.conn,
     signIns  |-> c.signIns,
     raised   |-> c.raised \/ ~describe.ok,
     signIn   |-> c.signIn,
     status   |-> IF c.raised \/ ~describe.ok THEN "raise" ELSE "ok",
     error    |-> IF c.raised THEN "SignInError"
                  ELSE IF ~describe.ok THEN "DescribeError" ELSE "",
     fields   |-> IF c.raised \/ ~describe.ok THEN <<>> ELSE describe.fields]

\* describe_object(obj)
describe_object(h, obj, env) == Describe(get_conn(h, env.loginOk), env.describe)

\* possible_timestamp_cols of object_to_df
LowerNames(fields) == [i \in 1..Len(fields) |-> Lower(fields[i].name)]
\* possible_timestamp_cols that also takes the fields of type string
PossibleTimestampCols_string(fields, df) ==
    LowerNames(SelectSeq(fields, LAMBDA f :
                   /\ f.type \in {"date", "datetime", "string"}
                   /\ Lower(f.name) \in Range(df.columns)))

PossibleTimestampCols(fields, df) ==
    LowerNames(SelectSeq(fields, LAMBDA f :
                   /\ f.type \in {"date", "datetime"}
                   /\ Lower(f.name) \in Range(df.columns)))

\* df[cols] = ..., given what _to_timestamp made of each column of cols
Assigned(df, conv) ==
    IF \E j \in 1..Len(df.columns) : conv[j].status = "raise"
    THEN [status |-> "raise", error |-> "TypeError", df |-> df,
          logs |-> {df.columns[j] : j \in {i \in 1..Len(df.columns) : conv[i].logged}}]
    ELSE [status |-> "ok", error |-> "",
          df |-> [df EXCEPT !.data = [j \in 1..Len(df.columns) |-> conv[j].values]],
          logs |-> {df.columns[j] : j \in {i \in 1..Len(df.columns) : conv[i].logged}}]

\* df[cols] = df[cols].apply(self._to_timestamp)
ApplyToTimestamp(df, cols) ==
    Assigned(df, [j \in 1..Len(df.columns) |->
                    IF df.columns[j] \in Range(cols)
                    THEN to_timestamp(df.data[j])
                    ELSE [status |-> "ok", error |-> "", values |-> df.data[j],
                          logged |-> FALSE]])

\* record_time_added: fetched_time = time.time(), read once, then
\* df["time_fetched_from_salesforce"] = fetched_time
AddTimeFetched(df, now) == SetColumn(df, time_fetched_from_salesforce, Num(now))

\* The result of object_to_df keeps the table after each step: normalized
\* (lines 334-336), coerced (after the block of lines 342-360) and table
\* (what is returned); lookup tells what became of the call of
\* describe_object ("none": not called), fields is the schema it returned.
Normalized(h, normalized) ==
    [status |-> "ok", error |-> "", normalized |-> normalized,
     coerced |-> normalized, table |-> normalized,
     conn |-> h.conn, signIns |-> h.signIns, signIn |-> "none",
     describeCalls |-> <<>>, lookup |-> "none", fields |-> <<>>,
     logs |-> {}, fetched_time |-> 0]

Raised(r, e) ==
    [r EXCEPT !.status = "raise", !.error = e, !.coerced = EmptyDf, !.table = EmptyDf]

\* lines 362-366
Returned(r, rta, now) ==
    IF rta THEN [r EXCEPT !.table = AddTimeFetched(r.coerced, now),
                          !.fetched_time = now]
    ELSE [r EXCEPT !.table = r.coerced]

\* line 350 done: describe_object(object_name) answered d
Called(r, object_name, d) ==
    [r EXCEPT !.conn = d.conn, !.signIns = d.signIns, !.signIn = d.signIn,
              !.describeCalls = <<object_name>>,
              !.lookup = IF d.status = "raise" THEN "failed" ELSE "ok",
              !.fields = d.fields]

\* line 360, given the outcome a of the assignment
Coerced(r, a, rta, now) ==
    IF a.status = "raise" THEN Raised([r EXCEPT !.logs = a.logs], a.error)
    ELSE Returned([r EXCEPT !.coerced = a.df, !.logs = a.logs], rta, now)
\* a lookup whose failure is swallowed: the table is returned uncoerced
WithSchema_swallow(r, d, rta, now) ==
    IF d.status = "raise" THEN Returned(r, rta, now)
    ELSE Coerced(r, ApplyToTimestamp(r.normalized,
                        PossibleTimestampCols(d.fields, r.normalized)), rta, now)

\* lines 355-366, given the answer d of describe_object: its exception is
\* not caught
WithSchema(r, d, rta, now) ==
    IF d.status = "raise" THEN Raised(r, d.error)
    ELSE Coerced(r, ApplyToTimestamp(r.normalized,
                        PossibleTimestampCols(d.fields, r.normalized)), rta, now)

AfterDescribe(r, object_name, d, rta, now) ==
    WithSchema(Called(r, object_name, d), d, rta, now)

\* line 346: query_results[0]['attributes']['type']
HasObjectName(qr) == HasKey(qr[1], K_attributes) /\ Get(qr[1], K_attributes).n = 1
\* the object name taken from the last record
ObjectName_last(qr) == Get(qr[Len(qr)], K_attributes).s

ObjectName(qr) == Get(qr[1], K_attributes).s

\* lines 346-366
Lookup(h, r, object_name, rta, env) ==
    AfterDescribe(r, object_name, describe_object(h, object_name, env), rta, env.now)

\* lines 342-366, given the normalized table in r
Coerce(h, qr, coerce, rta, env, r) ==
    IF coerce /\ r.normalized.nrows > 0
    THEN IF ~HasObjectName(qr) THEN Raised(r, "KeyError")
         ELSE Lookup(h, r, ObjectName(qr), rta, env)
    ELSE Returned(r, rta, env.now)

\* SalesforceHook.object_to_df
object_to_df(h, qr, coerce, rta, env) ==
    Coerce(h, qr, coerce, rta, env,
           Normalized(h, LowerColumns(from_records(qr, {K_attributes}))))

F_csv == <<"c", "s", "v">>
F_json == <<"j", "s", "o", "n">>
F_ndjson == <<"n", "d", "j", "s", "o", "n">>
\* cleaning that removes only the carriage-return+linefeed pairs
CleanValue_crlf(v) == Str(Replace(StrOf(v), <<CR, LF>>))

\* df[possible_strings] = df[possible_strings].astype(str).apply(
\*     lambda x: x.str.replace("\r\n", "").str.replace("\n", ""))
CleanValue(v) == Str(Replace(Replace(StrOf(v), <<CR, LF>>), <<LF>>))

CleanCsv(df) ==
    [df EXCEPT !.data = [j \in 1..Len(df.columns) |->
                            IF Dtype(df.data[j]) = "object"
                            THEN [i \in 1..df.nrows |-> CleanValue(df.data[j][i])]
                            ELSE df.data[j]]]

AcceptedFormats == {F_csv, F_json, F_ndjson}

\* line 271: raise ValueError, before anything else is done
Rejected(h) ==
    [status |-> "raise", error |-> "ValueError",
     normalized |-> EmptyDf, coerced |-> EmptyDf, table |-> EmptyDf,
     conn |-> h.conn, signIns |-> h.signIns, signIn |-> "none",
     describeCalls |-> <<>>, lookup |-> "none", fields |-> <<>>,
     logs |-> {}, fetched_time |-> 0, df |-> EmptyDf, writes |-> <<>>]

\* r, the result of object_to_df, with the table write_object_to_file
\* returns and the writes it made
Written(r, df, w) ==
    [status |-> r.status, error |-> r.error,
     normalized |-> r.normalized, coerced |-> r.coerced,
     table |-> r.table, conn |-> r.conn, signIns |-> r.signIns,
     signIn |-> r.signIn,
     describeCalls |-> r.describeCalls, lookup |-> r.lookup, fields |-> r.fields,
     logs |-> r.logs, fetched_time |-> r.fetched_time, df |-> df, writes |-> w]

\* One call of a pandas writer: [method, lines, df], the writer, its lines
\* flag and the table it was given.
ToCsv(df) == <<[method |-> "to_csv", lines |-> FALSE, df |-> df]>>

ToJson(df, lines) == <<[method |-> "to_json", lines |-> lines, df |-> df]>>
\* a csv branch that writes the cleaned table and returns the table it got
WriteCsv_raw(r, cleaned) == Written(r, r.table, ToCsv(cleaned))

\* lines 288-299
WriteCsv(r, cleaned) == Written(r, cleaned, ToCsv(cleaned))

\* lines 288-305, given the lowercased format f and the result r of object_to_df
WriteTable(f, r) ==
    IF r.status = "raise" THEN Written(r, EmptyDf, <<>>)
    ELSE IF f = F_csv THEN WriteCsv(r, CleanCsv(r.table))
    ELSE IF f = F_json THEN Written(r, r.table, ToJson(r.table, FALSE))
    ELSE Written(r, r.table, ToJson(r.table, TRUE))
\* a format check that looks at the format as given
write_object_to_file_cased(h, qr, format, coerce, rta, env) ==
    IF format \notin AcceptedFormats THEN Rejected(h)
    ELSE WriteTable(format, object_to_df(h, qr, coerce, rta, env))

\* SalesforceHook.write_object_to_file
write_object_to_file(h, qr, format, coerce, rta, env) ==
    IF Lower(format) \notin AcceptedFormats THEN Rejected(h)
    ELSE WriteTable(Lower(format), object_to_df(h, qr, coerce, rta, env))

\* ------------------------------------------------------------- the inputs

Opportunity == <<"O", "p", "p", "o", "r", "t", "u", "n", "i", "t", "y">>
Account == <<"A", "c", "c", "o", "u", "n", "t">>
ObjectNames == {Opportunity, Account}

S_date == <<"1", "9", "7", "0", "-", "0", "1", "-", "0", "2">>
S_na == <<"N", "/", "A">>
S_a1 == <<"a", "1">>
S_lines == <<"x", CR, CR, LF, LF, "y", CR>>
S_z == <<"z">>
S_t0 == <<"t", "0">>

\* The records query_results is drawn from.
Records ==
    { << <<K_attributes, Attrs(Opportunity)>>, <<K_Id, Str(S_a1)>>,
         <<K_CloseDate, Str(S_date)>> >>,
      << <<K_attributes, Attrs(Account)>>, <<K_CloseDate, None>>,
         <<K_Id, Str(S_lines)>> >>,
      << <<K_attributes, Attrs(Opportunity)>>, <<K_CloseDate, Str(S_na)>>,
         <<K_Amount, Num(5)>> >>,
      << <<K_attributes, NoType>> >>,
      << <<K_attributes, Attrs(Opportunity)>>, <<K_Attributes, Str(S_z)>>,
         <<K_Time_Fetched, Str(S_t0)>>, <<K_CloseDate, Str(<<>>)>> >>,
      << <<K_attributes, Attrs(Opportunity)>>, <<K_CloseDate, Bool(TRUE)>>,
         <<K_Id, Num(7)>> >> }

RecordLists == UNION {[1..n -> Records] : n \in 0..MaxRecords}

Formats ==
    {F_csv, <<"C", "S", "V">>, F_json, <<"N", "d", "J", "s", "o", "n">>,
     <<"x", "m", "l">>}

\* what conn.<obj>.describe() may answer
Schemas ==
    { << [name |-> K_Id, type |-> "id"],
         [name |-> K_CloseDate, type |-> "date"],
         [name |-> K_CreatedDate, type |-> "datetime"],
         [name |-> K_Amount, type |-> "currency"] >>,
      << [name |-> K_Id, type |-> "id"],
         [name |-> K_CloseDate, type |-> "string"] >> }

DescribeOutcomes ==
    {[ok |-> FALSE, fields |-> <<>>]} \cup {[ok |-> TRUE, fields |-> s] : s \in Schemas}

\* what time.time() may return
Times == {1600000000}

Envs == [loginOk : BOOLEAN, describe : DescribeOutcomes, now : Times]

\* ----------------------------------------------------------- the machine

NoRet == [status |-> "none", error |-> "", normalized |-> EmptyDf,
          coerced |-> EmptyDf, table |-> EmptyDf, df |-> EmptyDf,
          fetched_time |-> 0, lookup |-> "none", fields |-> <<>>]

Hook == [conn |-> conn, signIns |-> signIns]

\* SalesforceHook.__init__: self.conn = None.  The arguments of the calls
\* are those the caller holds.
InitHook ==
    /\ conn = 0
    /\ signIns = 0
    /\ op = "init"
    /\ ret = NoRet
    /\ describeCalls = <<>>
    /\ writes = <<>>
    /\ logs = {}
    /\ signIn = "none"

Init ==
    /\ query_results \in RecordLists
    /\ fmt \in Formats
    /\ coerce_to_timestamp \in BOOLEAN
    /\ record_time_added \in BOOLEAN
    /\ InitHook

InitConn ==
    /\ query_results \in {<<>>} \cup {<<r>> : r \in Records}
    /\ fmt \in {F_csv, <<"x", "m", "l">>}
    /\ coerce_to_timestamp \in BOOLEAN
    /\ record_time_added \in BOOLEAN
    /\ InitHook

Args == <<query_results, fmt, coerce_to_timestamp, record_time_added>>

\* the state left by a method that builds no table
Plain(name, c, status, error, fields, calls) ==
    /\ conn' = c.conn
    /\ signIns' = c.signIns
    /\ signIn' = c.signIn
    /\ op' = name
    /\ ret' = [NoRet EXCEPT !.status = status, !.error = error, !.fields = fields]
    /\ describeCalls' = calls
    /\ writes' = <<>>
    /\ logs' = {}
    /\ UNCHANGED Args

\* the state left by object_to_df or write_object_to_file, which returned df
Built(name, r, df, w) ==
    /\ conn' = r.conn
    /\ signIns' = r.signIns
    /\ signIn' = r.signIn
    /\ op' = name
    /\ ret' = [status |-> r.status, error |-> r.error,
               normalized |-> r.normalized, coerced |-> r.coerced,
               table |-> r.table, df |-> df,
               fetched_time |-> r.fetched_time, lookup |-> r.lookup,
               fields |-> r.fields]
    /\ describeCalls' = r.describeCalls
    /\ writes' = w
    /\ logs' = r.logs
    /\ UNCHANGED Args

Signed(name, c) ==
    Plain(name, c, IF c.raised THEN "raise" ELSE "ok",
          IF c.raised THEN "SignInError" ELSE "", <<>>, <<>>)

GetConn ==
    /\ signIns < MaxSessions
    /\ \E loginOk \in BOOLEAN : Signed("get_conn", get_conn(Hook, loginOk))

\* conn.query_all(...) on the connection c that get_conn() gave; it may raise
QueryAll(c, queryOk) ==
    [conn |-> c.conn, signIns |-> c.signIns, raised |-> c.raised \/ ~queryOk,
     signIn |-> c.signIn,
     status |-> IF c.raised \/ ~queryOk THEN "raise" ELSE "ok",
     error |-> IF c.raised THEN "SignInError"
               ELSE IF ~queryOk THEN "QueryError" ELSE ""]

\* make_query
make_query(h, loginOk, queryOk) == QueryAll(get_conn(h, loginOk), queryOk)

Queried(name, q) == Plain(name, q, q.status, q.error, <<>>, <<>>)

MakeQuery ==
    /\ signIns < MaxSessions
    /\ \E loginOk \in BOOLEAN, queryOk \in BOOLEAN :
         Queried("make_query", make_query(Hook, loginOk, queryOk))

\* get_object_from_salesforce: builds the SELECT and returns make_query(query)
GetObjectFromSalesforce ==
    /\ signIns < MaxSessions
    /\ \E loginOk \in BOOLEAN, queryOk \in BOOLEAN :
         Queried("get_object_from_salesforce", make_query(Hook, loginOk, queryOk))

Described(name, d, calls) == Plain(name, d, d.status, d.error, d.fields, calls)

DescribeObject ==
    /\ signIns < MaxSessions
    /\ \E obj \in ObjectNames, env \in Envs :
         Described("describe_object", describe_object(Hook, obj, env), <<obj>>)

\* lines 158-160, after the get_conn() of line 156 gave c
FieldNames(c, d) ==
    IF c.raised
    THEN [conn |-> c.conn, signIns |-> c.signIns, signIn |-> c.signIn,
          status |-> "raise", error |-> "SignInError", fields |-> <<>>,
          called |-> FALSE]
    ELSE [conn |-> d.conn, signIns |-> d.signIns,
          signIn |-> IF c.signIn = "ok" THEN "ok" ELSE d.signIn,
          status |-> d.status, error |-> d.error,
          fields |-> [i \in 1..Len(d.fields) |-> d.fields[i].name],
          called |-> TRUE]

AfterGetConn(c, obj, env) ==
    FieldNames(c, describe_object([conn |-> c.conn, signIns |-> c.signIns], obj, env))

\* get_available_fields: get_conn(), then describe_object(obj), then the
\* names of the fields
get_available_fields(h, obj, env) == AfterGetConn(get_conn(h, env.loginOk), obj, env)

Listed(name, g, obj) ==
    Described(name, g, IF g.called THEN <<obj>> ELSE <<>>)

GetAvailableFields ==
    /\ signIns < MaxSessions
    /\ \E obj \in ObjectNames, env \in Envs :
         Listed("get_available_fields", get_available_fields(Hook, obj, env), obj)

Tabled(name, r) == Built(name, r, r.table, <<>>)

ObjectToDf ==
    /\ signIns < MaxSessions
    /\ \E env \in Envs :
         Tabled("object_to_df",
                object_to_df(Hook, query_results, coerce_to_timestamp,
                             record_time_added, env))

Filed(name, r) == Built(name, r, r.df, r.writes)

WriteObjectToFile ==
    /\ signIns < MaxSessions
    /\ \E env \in Envs :
         Filed("write_object_to_file",
               write_object_to_file(Hook, query_results, fmt, coerce_to_timestamp,
                                    record_time_added, env))

\* object_to_df and write_object_to_file on a hook that may already be
\* signed in
Next ==
    \/ GetConn
    \/ ObjectToDf
    \/ WriteObjectToFile

Spec == Init /\ [][Next]_vars

\* every method of the hook, in any order
NextConn ==
    \/ GetConn
    \/ MakeQuery
    \/ GetObjectFromSalesforce
    \/ DescribeObject
    \/ GetAvailableFields
    \/ ObjectToDf
    \/ WriteObjectToFile

SpecConn == InitConn /\ [][NextConn]_vars

\* ---------------------------------------------------------------------
\* Properties
\* ---------------------------------------------------------------------

Accepted(f) == Lower(f) \in {F_csv, F_json, F_ndjson}

\* C1: write_object_to_file accepts a format exactly when its lowercased
\* value is csv, json or ndjson; any other format is rejected with the
\* unsupported-format error before the table is built, before
\* describe_object is called and before anything is written.
C1_FormatGate ==
    op = "write_object_to_file" =>
        /\ (ret.error = "ValueError") <=> ~Accepted(fmt)
        /\ ~Accepted(fmt) =>
              /\ ret.status = "raise"
              /\ ret.normalized = EmptyDf
              /\ describeCalls = <<>>
              /\ signIn = "none"
              /\ writes = <<>>

\* a rejected call whose records and coercion flag would otherwise have
\* reached describe_object
C1_Witness ==
    /\ op = "write_object_to_file"
    /\ fmt = <<"x", "m", "l">>
    /\ ret.error = "ValueError"
    /\ coerce_to_timestamp
    /\ query_results # <<>>
    /\ HasObjectName(query_results)

\* the keys of the records other than the reserved attributes entry
DataKeys(qr) ==
    {k \in UNION {{qr[i][j][1] : j \in 1..Len(qr[i])} : i \in 1..Len(qr)} :
        k # K_attributes}

\* every row has one entry per column: the record's value under the key
\* the column comes from, null when the record has no such key
Rectangular(df, qr) ==
    /\ Len(df.data) = Len(df.columns)
    /\ df.nrows = IF df.columns = <<>> THEN 0 ELSE Len(qr)
    /\ \A j \in 1..Len(df.columns) :
          /\ Len(df.data[j]) = df.nrows
          /\ \A i \in 1..df.nrows :
                IF \E k \in DataKeys(<<qr[i]>>) : Lower(k) = df.columns[j]
                THEN \E k \in DataKeys(<<qr[i]>>) :
                        /\ Lower(k) = df.columns[j]
                        /\ df.data[j][i] = Get(qr[i], k)
                ELSE df.data[j][i] = NaN

ColumnsAreLoweredKeys(df, qr) ==
    Range(df.columns) = {Lower(k) : k \in DataKeys(qr)}

\* C2 as stated: the table is rectangular, its columns are the lowercased
\* keys of the records other than attributes, and attributes is never a
\* column.
C2_Original ==
    op = "object_to_df" =>
        /\ Rectangular(ret.normalized, query_results)
        /\ ColumnsAreLoweredKeys(ret.normalized, query_results)
        /\ K_attributes \notin Range(ret.normalized.columns)

\* C2: the table object_to_df builds is rectangular, its columns are the
\* lowercased keys of the records other than the key attributes itself,
\* and a column named attributes exists only when some record has another
\* key (such as Attributes) that lowercases to it.
C2_Normalized ==
    op = "object_to_df" =>
        /\ Rectangular(ret.normalized, query_results)
        /\ ColumnsAreLoweredKeys(ret.normalized, query_results)
        /\ K_attributes \in Range(ret.normalized.columns) =>
              \E k \in DataKeys(query_results) : Lower(k) = K_attributes

\* two records with different keys, one of them carrying the key Attributes
C2_Witness ==
    /\ op = "object_to_df"
    /\ Len(query_results) = 2
    /\ K_attributes \in Range(ret.normalized.columns)
    /\ \E j \in 1..Len(ret.normalized.columns) :
          /\ ret.normalized.data[j][1] = NaN
          /\ ret.normalized.data[j][2] # NaN

\* the fields of type date or datetime of the schema object_to_df fetched
\* whose lowercased name is the column c
Eligible(c) ==
    \E i \in 1..Len(ret.fields) :
        /\ ret.fields[i].type \in {"date", "datetime"}
        /\ Lower(ret.fields[i].name) = c

\* C3: coercion changes the values of a column only if coerce_to_timestamp
\* is true, the table has at least one row, the fetched schema marks a
\* field as date or datetime and that field's lowercased name is the
\* column; every other column keeps the values it had after normalization.
C3_CoercionFrame ==
    (op = "object_to_df" /\ ret.status = "ok") =>
        /\ ret.coerced.columns = ret.normalized.columns
        /\ ret.coerced.nrows = ret.normalized.nrows
        /\ \A j \in 1..Len(ret.normalized.columns) :
              ret.coerced.data[j] # ret.normalized.data[j] =>
                 /\ coerce_to_timestamp
                 /\ ret.normalized.nrows > 0
                 /\ ret.lookup = "ok"
                 /\ Eligible(ret.normalized.columns[j])

\* one column converted next to a column the schema marks as id and left
\* as it was
C3_Witness ==
    /\ op = "object_to_df"
    /\ ret.status = "ok"
    /\ \E j, k \in 1..Len(ret.normalized.columns) :
          /\ ret.coerced.data[j] # ret.normalized.data[j]
          /\ ret.normalized.columns[k] = Lower(K_Id)
          /\ ret.coerced.data[k] = ret.normalized.data[k]
          /\ \E i \in 1..Len(ret.fields) : Lower(ret.fields[i].name) = Lower(K_Id)

\* C4 as stated: describe_object is called at most once, exactly when
\* coerce_to_timestamp is true and the record sequence is non-empty, with
\* the attributes.type of the first record.
C4_Original ==
    op = "object_to_df" =>
        /\ Len(describeCalls) <= 1
        /\ (describeCalls # <<>>) <=> (coerce_to_timestamp /\ query_results # <<>>)
        /\ describeCalls # <<>> =>
              describeCalls[1] = Get(query_results[1], K_attributes).s

\* C4: during one object_to_df call describe_object is called at most
\* once; it is called exactly when coerce_to_timestamp is true, the
\* normalized table has at least one row and the first record carries
\* attributes.type, and then with the type of the first record only.
C4_DescribeOnce ==
    op = "object_to_df" =>
        /\ Len(describeCalls) <= 1
        /\ (describeCalls # <<>>) <=>
              /\ coerce_to_timestamp
              /\ ret.normalized.nrows > 0
              /\ HasObjectName(query_results)
        /\ describeCalls # <<>> =>
              describeCalls[1] = Get(query_results[1], K_attributes).s

\* the lookup was made for the first record's type while the second record
\* carries another type
C4_Witness ==
    /\ op = "object_to_df"
    /\ Len(query_results) = 2
    /\ HasObjectName(<<query_results[2]>>)
    /\ describeCalls = <<Account>>
    /\ Get(query_results[2], K_attributes).s = Opportunity

LookupOrTypeFailed ==
    /\ op \in {"object_to_df", "write_object_to_file"}
    /\ op = "write_object_to_file" => Accepted(fmt)
    /\ coerce_to_timestamp
    /\ ret.lookup = "failed" \/ ~HasObjectName(query_results)

Propagated ==
    /\ ret.status = "raise"
    /\ ret.error \in {"SignInError", "DescribeError", "KeyError"}
    /\ ret.df = EmptyDf
    /\ writes = <<>>

\* C5 as stated: on a non-empty record sequence with coercion requested, a
\* failed lookup or a first record without attributes.type propagates and
\* nothing is written.
C5_Original ==
    (query_results # <<>> /\ LookupOrTypeFailed) => Propagated

\* C5: when coercion is requested, the normalized table has at least one
\* row and the schema lookup fails or the first record has no
\* attributes.type, the failure propagates to the caller of object_to_df
\* and of write_object_to_file: no table is returned and nothing is
\* written.
C5_Propagates ==
    (ret.normalized.nrows > 0 /\ LookupOrTypeFailed) => Propagated

\* write_object_to_file with an accepted format whose lookup failed
C5_Witness ==
    /\ op = "write_object_to_file"
    /\ Accepted(fmt)
    /\ coerce_to_timestamp
    /\ ret.lookup = "failed"
    /\ ret.error = "DescribeError"
    /\ ret.normalized.nrows > 0

IsEpochOrNaN(v) == v.k \in {"num", "nan"}

\* C6 as stated: coercion of an eligible column never raises: either the
\* column comes back unchanged with a diagnostic logged, or every value is
\* epoch seconds or NaN, NaN where the value was null.
C6_Original ==
    (op = "object_to_df" /\ coerce_to_timestamp /\ ret.lookup = "ok") =>
        /\ ret.status = "ok"
        /\ \A j \in 1..Len(ret.normalized.columns) :
              Eligible(ret.normalized.columns[j]) =>
                 \/ /\ ret.coerced.data[j] = ret.normalized.data[j]
                    /\ ret.normalized.columns[j] \in logs
                 \/ \A i \in 1..ret.normalized.nrows :
                       /\ IsEpochOrNaN(ret.coerced.data[j][i])
                       /\ ret.normalized.data[j][i].k \in {"None", "nan"} =>
                             ret.coerced.data[j][i] = NaN

\* C7 as stated: with record_time_added the returned table ends with the
\* column time_fetched_from_salesforce, the same timestamp in every row;
\* without it no column is added.
C7_Original ==
    (op = "object_to_df" /\ ret.status = "ok") =>
        IF record_time_added
        THEN /\ ret.table.columns # <<>>
             /\ ret.table.columns[Len(ret.table.columns)] = time_fetched_from_salesforce
             /\ \A i \in 1..ret.table.nrows :
                   ret.table.data[Len(ret.table.columns)][i] = Num(ret.fetched_time)
        ELSE ret.table = ret.coerced

RECURSIVE WithoutNewlines(_)
WithoutNewlines(s) ==
    IF s = <<>> THEN <<>>
    ELSE IF Head(s) \in {CR, LF} THEN WithoutNewlines(Tail(s))
    ELSE <<Head(s)>> \o WithoutNewlines(Tail(s))

Count(s, c) == Cardinality({i \in 1..Len(s) : s[i] = c})

\* C8: for csv every value of every object-typed column of the returned
\* table is a string without linefeed (hence without carriage-return +
\* linefeed pair) that differs from the string of the original value only
\* by deleted carriage returns and linefeeds; numeric and boolean columns,
\* the columns and the number of rows are unchanged.
C8_CsvClean ==
    (op = "write_object_to_file" /\ ret.status = "ok" /\ Lower(fmt) = F_csv) =>
        /\ ret.df.columns = ret.table.columns
        /\ ret.df.nrows = ret.table.nrows
        /\ \A j \in 1..Len(ret.table.columns) :
              IF Dtype(ret.table.data[j]) = "object"
              THEN \A i \in 1..ret.table.nrows :
                      /\ ret.df.data[j][i].k = "str"
                      /\ LF \notin Range(ret.df.data[j][i].s)
                      /\ WithoutNewlines(ret.df.data[j][i].s)
                            = WithoutNewlines(StrOf(ret.table.data[j][i]))
                      /\ Count(ret.df.data[j][i].s, CR)
                            <= Count(StrOf(ret.table.data[j][i]), CR)
              ELSE ret.df.data[j] = ret.table.data[j]

\* a value with carriage returns and linefeeds mixed, next to a numeric
\* column
C8_Witness ==
    /\ op = "write_object_to_file"
    /\ ret.status = "ok"
    /\ fmt = <<"C", "S", "V">>
    /\ ret.table.nrows > 0
    /\ \E j, k \in 1..Len(ret.table.columns) :
          /\ ret.table.data[j][1] = Str(S_lines)
          /\ CR \in Range(ret.df.data[j][1].s)
          /\ Dtype(ret.table.data[k]) = "float64"

Writer(f) ==
    IF f = F_csv THEN [method |-> "to_csv", lines |-> FALSE]
    ELSE IF f = F_json THEN [method |-> "to_json", lines |-> FALSE]
    ELSE [method |-> "to_json", lines |-> TRUE]

\* C9: a successful write_object_to_file makes exactly one write, with the
\* writer of the requested format, and returns the table it wrote: for csv
\* the cleaned table, for json and ndjson the table object_to_df produced.
C9_OneWrite ==
    (op = "write_object_to_file" /\ ret.status = "ok") =>
        /\ Len(writes) = 1
        /\ writes[1].method = Writer(Lower(fmt)).method
        /\ writes[1].lines = Writer(Lower(fmt)).lines
        /\ writes[1].df = ret.df
        /\ ret.df = IF Lower(fmt) = F_csv THEN CleanCsv(ret.table) ELSE ret.table

\* a csv write whose cleaning changed the table
C9_Witness ==
    /\ op = "write_object_to_file"
    /\ ret.status = "ok"
    /\ Lower(fmt) = F_csv
    /\ Len(writes) = 1
    /\ ret.df # ret.table

CallsGetConn ==
    {"get_conn", "make_query", "get_object_from_salesforce", "describe_object",
     "get_available_fields"}

\* C10: on one hook a sign-in succeeds at most once: a call made when a
\* connection exists keeps that connection and signs in no more; a sign-in
\* that fails leaves the hook without a connection, and a call made
\* without a connection attempts the sign-in.
C10_SignInOnce ==
    [][/\ signIns' <= 1
       /\ conn # 0 => (conn' = conn /\ signIns' = signIns /\ signIn' \in {"cached", "none"})
       /\ signIn' = "failed" => (conn = 0 /\ conn' = 0 /\ signIns' = signIns)
       /\ (conn = 0 /\ op' \in CallsGetConn) =>
             \/ signIn' = "failed"
             \/ signIn' = "ok" /\ conn' # 0 /\ signIns' = signIns + 1]_vars

\* get_available_fields answered over a connection made by an earlier call
C10_Witness ==
    /\ op = "get_available_fields"
    /\ signIn = "cached"
    /\ conn = 1
    /\ signIns = 1
    /\ ret.status = "ok"

====
